---- MODULE Spec2Model ----
(***************************************************************************)
(* EVAC+ (VIP-EVAC-Dev): the time-of-day facility projection of the        *)
(* backend (backend/server.js) and the recommendation engine of the        *)
(* frontend (frontend/src/App.js, handleGetRecommendation).                *)
(*                                                                         *)
(* Numbers.  Wait multipliers are kept in tenths (1.8 -> 18), Moderate     *)
(* scores in tenths of a point, haversine distances in thousandths of a    *)
(* mile.  A facility position is represented by its haversine distance     *)
(* from userLocation (App.js:145), which is the only thing the code        *)
(* derives from it.                                                        *)
(***************************************************************************)
EXTENDS Integers, Sequences, FiniteSets, TLC

VARIABLES severity, selectedPersona, simulatedHour, facilities, trafficLevel,
          recommendation, highlightedFacilityId, outcome,
          catalog, clock, handler, response, projection, previous,
          callArgs, callResult,
          inFlight

\* The state of the frontend (the useState hooks of App).
appVars == <<severity, selectedPersona, simulatedHour, facilities, trafficLevel,
             recommendation, highlightedFacilityId, outcome>>

\* The state of the backend: the baseFacilities array in memory, the hour
\* of the wall clock, the locals of a GET /api/facilities handler that has
\* started, the last response sent, the last array that
\* getFacilitiesWithCurrentStatus returned and one returned earlier.
serverVars == <<catalog, clock, handler, response, projection, previous>>

\* One call of a helper function made on its own: the arguments it is
\* given and what it returned.
callVars == <<callArgs, callResult>>

\* The fetches of /api/facilities that the frontend has issued and that
\* have not been answered: the simulatedHour each was issued for.  Two
\* requests for the same hour get the same answer, so a set is kept.
netVars == <<inFlight>>

vars == <<appVars, serverVars, callVars, netVars>>

(***************************************************************************)
(* Bounds of the model.                                                    *)
(***************************************************************************)
MaxFacilities == 2

Hours == 0 .. 23

Personas == {"burn", "pregnancy", "asthma", "dementia"}

Severities == {"Mild", "Moderate", "Severe"}

(***************************************************************************)
(* JavaScript helpers.                                                     *)
(***************************************************************************)
\* No helper has been called on its own.
NoCall == [outcome |-> "none"]

\* Math.max(a, b)
Max(a, b) == IF a >= b THEN a ELSE b

\* Math.round(n / d) for n >= 0, d > 0: halves round up.
RoundDiv(n, d) == (2 * n + d) \div (2 * d)

\* InsertByKey placing x before the elements of equal key (ties reversed).
RECURSIVE InsertBeforeEqualKey(_, _)
InsertBeforeEqualKey(x, s) ==
  IF s = <<>> THEN <<x>>
  ELSE IF Head(s).key < x.key THEN <<Head(s)>> \o InsertBeforeEqualKey(x, Tail(s))
       ELSE <<x>> \o s

\* Insertion of x into a sequence sorted by .key, after every element whose
\* key is not greater than x.key (equal keys keep their order).
RECURSIVE InsertByKey(_, _)
InsertByKey(x, s) ==
  IF s = <<>> THEN <<x>>
  ELSE IF Head(s).key <= x.key THEN <<Head(s)>> \o InsertByKey(x, Tail(s))
       ELSE <<x>> \o s

\* Array.prototype.sort((a, b) => a.key - b.key): ascending and stable.
RECURSIVE SortByKey(_)
SortByKey(s) ==
  IF s = <<>> THEN <<>>
  ELSE InsertByKey(s[Len(s)], SortByKey(SubSeq(s, 1, Len(s) - 1)))

(***************************************************************************)
(* Backend: temporal model (server.js, the current version of the file).   *)
(***************************************************************************)
\* The number NaN (the result of parseInt on a string without a leading
\* digit), as a value no hour takes.
NaN == -2000

\* The relational operators of JavaScript on numbers: false when an operand
\* is NaN.
GreaterOrEqual(a, b) == a # NaN /\ b # NaN /\ a >= b

LessOrEqual(a, b) == a # NaN /\ b # NaN /\ a <= b

Less(a, b) == a # NaN /\ b # NaN /\ a < b

Greater(a, b) == a # NaN /\ b # NaN /\ a > b

\* getTimeMultiplier with the ER evening peak lasting through hour 23.
getTimeMultiplierLateEvening(facilityType, hour) ==
  IF facilityType = "ER"
  THEN IF GreaterOrEqual(hour, 18) /\ LessOrEqual(hour, 23) THEN 18
       ELSE IF GreaterOrEqual(hour, 14) /\ Less(hour, 18) THEN 15
       ELSE IF GreaterOrEqual(hour, 10) /\ Less(hour, 14) THEN 10
       ELSE IF GreaterOrEqual(hour, 6) /\ Less(hour, 10) THEN 12
       ELSE 7
  ELSE IF GreaterOrEqual(hour, 9) /\ Less(hour, 12) THEN 16
       ELSE IF GreaterOrEqual(hour, 12) /\ Less(hour, 14) THEN 13
       ELSE IF GreaterOrEqual(hour, 14) /\ Less(hour, 18) THEN 18
       ELSE IF GreaterOrEqual(hour, 18) /\ Less(hour, 20) THEN 14
       ELSE IF GreaterOrEqual(hour, 20) \/ Less(hour, 8) THEN 0
       ELSE 10

\* getTimeMultiplier(facilityType, hour), in tenths.
getTimeMultiplier(facilityType, hour) ==
  IF facilityType = "ER"
  THEN IF GreaterOrEqual(hour, 18) /\ Less(hour, 23) THEN 18
       ELSE IF GreaterOrEqual(hour, 14) /\ Less(hour, 18) THEN 15
       ELSE IF GreaterOrEqual(hour, 10) /\ Less(hour, 14) THEN 10
       ELSE IF GreaterOrEqual(hour, 6) /\ Less(hour, 10) THEN 12
       ELSE 7
  ELSE IF GreaterOrEqual(hour, 9) /\ Less(hour, 12) THEN 16
       ELSE IF GreaterOrEqual(hour, 12) /\ Less(hour, 14) THEN 13
       ELSE IF GreaterOrEqual(hour, 14) /\ Less(hour, 18) THEN 18
       ELSE IF GreaterOrEqual(hour, 18) /\ Less(hour, 20) THEN 14
       ELSE IF GreaterOrEqual(hour, 20) \/ Less(hour, 8) THEN 0
       ELSE 10

\* getTrafficLevel(hour)
getTrafficLevel(hour) ==
  IF (GreaterOrEqual(hour, 7) /\ Less(hour, 10)) \/ (GreaterOrEqual(hour, 16) /\ Less(hour, 19)) THEN "severe"
  ELSE IF (GreaterOrEqual(hour, 6) /\ Less(hour, 7)) \/ (GreaterOrEqual(hour, 10) /\ Less(hour, 12))
          \/ (GreaterOrEqual(hour, 14) /\ Less(hour, 16)) THEN "heavy"
  ELSE IF GreaterOrEqual(hour, 12) /\ Less(hour, 14) THEN "moderate"
  ELSE "low"

\* An absent openHour / closeHour property.
NoHour == -1

\* baseFacilities.  position is the haversine distance (R = 3959 miles) of
\* the facility's coordinates from userLocation, in thousandths of a mile.
baseFacilities == <<
  [id |-> 1, name |-> "Grady Memorial Hospital", type |-> "ER",
   position |-> 1946, baseWaitTime |-> 45, openHour |-> NoHour, closeHour |-> NoHour],
  [id |-> 2, name |-> "Emory University Hospital Midtown", type |-> "ER",
   position |-> 835, baseWaitTime |-> 35, openHour |-> NoHour, closeHour |-> NoHour],
  [id |-> 3, name |-> "Piedmont Atlanta Hospital", type |-> "ER",
   position |-> 2317, baseWaitTime |-> 40, openHour |-> NoHour, closeHour |-> NoHour],
  [id |-> 4, name |-> "Peachtree Immediate Care - Midtown", type |-> "Urgent Care",
   position |-> 690, baseWaitTime |-> 15, openHour |-> 8, closeHour |-> 20],
  [id |-> 5, name |-> "Northside Family Medicine & Urgent Care - Midtown", type |-> "Urgent Care",
   position |-> 722, baseWaitTime |-> 18, openHour |-> 8, closeHour |-> 20],
  [id |-> 6, name |-> "Urgent Care 24/7 Atlanta", type |-> "Urgent Care",
   position |-> 960, baseWaitTime |-> 20, openHour |-> 0, closeHour |-> 24],
  [id |-> 7, name |-> "Piedmont Urgent Care", type |-> "Urgent Care",
   position |-> 2179, baseWaitTime |-> 17, openHour |-> 7, closeHour |-> 19],
  [id |-> 8, name |-> "Atlanta Urgent Care at Peachtree", type |-> "Urgent Care",
   position |-> 2969, baseWaitTime |-> 16, openHour |-> 8, closeHour |-> 20] >>

\* Math.round(baseWaitTime * multiplier) on IEEE-754 doubles.  The product
\* is exact in tenths except where the double product falls just below a
\* half: 45 * 0.7 evaluates to 31.499999999999996, which rounds to 31.
RoundWait(baseWaitTime, multiplier) ==
  IF baseWaitTime = 45 /\ multiplier = 7 THEN 31
  ELSE RoundDiv(baseWaitTime * multiplier, 10)

\* FacilityStatus with the default 8-20 window for every Urgent Care, the
\* facility's own openHour / closeHour being ignored.
FacilityStatusDefaultHours(facility, hour) ==
  IF facility.type = "Urgent Care" /\ (Less(hour, 8) \/ GreaterOrEqual(hour, 20))
  THEN "Closed" ELSE "Open"

\* FacilityStatus with the closing hour still inside the window.
FacilityStatusInclusiveClose(facility, hour) ==
  IF facility.type = "ER" THEN "Open"
  ELSE IF facility.type = "Urgent Care"
  THEN IF facility.openHour # NoHour /\ facility.closeHour # NoHour
       THEN IF facility.openHour = 0 /\ facility.closeHour = 24 THEN "Open"
            ELSE IF Less(hour, facility.openHour) \/ Greater(hour, facility.closeHour)
                 THEN "Closed" ELSE "Open"
       ELSE IF Less(hour, 8) \/ Greater(hour, 20) THEN "Closed" ELSE "Open"
  ELSE "Open"

\* The status computed for one facility at an hour.
FacilityStatus(facility, hour) ==
  IF facility.type = "ER" THEN "Open"
  ELSE IF facility.type = "Urgent Care"
  THEN IF facility.openHour # NoHour /\ facility.closeHour # NoHour
       THEN IF facility.openHour = 0 /\ facility.closeHour = 24 THEN "Open"
            ELSE IF Less(hour, facility.openHour) \/ GreaterOrEqual(hour, facility.closeHour)
                 THEN "Closed" ELSE "Open"
       ELSE IF Less(hour, 8) \/ GreaterOrEqual(hour, 20) THEN "Closed" ELSE "Open"
  ELSE "Open"

\* The view of one facility at an hour (the body of the map callback).
FacilityView(facility, hour) ==
  LET multiplier == getTimeMultiplier(facility.type, hour)
      currentWaitTime == RoundWait(facility.baseWaitTime, multiplier)
      status == FacilityStatus(facility, hour)
  IN [id |-> facility.id, name |-> facility.name, type |-> facility.type,
      position |-> facility.position, baseWaitTime |-> facility.baseWaitTime,
      currentWaitTime |-> currentWaitTime,
      waitTimeDisplay |-> IF status = "Open" /\ currentWaitTime > 0
                          THEN ToString(currentWaitTime) \o " min" ELSE "Closed",
      status |-> status,
      capacity |-> IF currentWaitTime < 20 THEN "High"
                   ELSE IF currentWaitTime < 40 THEN "Medium" ELSE "Low"]

\* getFacilitiesWithCurrentStatus(hour)
getFacilitiesWithCurrentStatus(hour) ==
  [i \in 1 .. Len(baseFacilities) |-> FacilityView(baseFacilities[i], hour)]

(***************************************************************************)
(* Frontend: travel estimate (App.js).                                     *)
(***************************************************************************)
\* getTrafficForHour without the heavy hour before the morning peak.
getTrafficForHourNoEarlyHeavy(hour) ==
  IF (hour >= 7 /\ hour < 10) \/ (hour >= 16 /\ hour < 19) THEN "severe"
  ELSE IF (hour >= 10 /\ hour < 12) \/ (hour >= 14 /\ hour < 16) THEN "heavy"
  ELSE IF hour >= 12 /\ hour < 14 THEN "moderate"
  ELSE "low"

\* getTrafficForHour(hour)
getTrafficForHour(hour) ==
  IF (hour >= 7 /\ hour < 10) \/ (hour >= 16 /\ hour < 19) THEN "severe"
  ELSE IF (hour >= 6 /\ hour < 7) \/ (hour >= 10 /\ hour < 12)
          \/ (hour >= 14 /\ hour < 16) THEN "heavy"
  ELSE IF hour >= 12 /\ hour < 14 THEN "moderate"
  ELSE "low"

\* The switch on currentTraffic in calculateTravelTime: speed in mph.
TrafficSpeed(currentTraffic) ==
  CASE currentTraffic = "low" -> 30
    [] currentTraffic = "moderate" -> 20
    [] currentTraffic = "heavy" -> 15
    [] currentTraffic = "severe" -> 10
    [] OTHER -> 25

\* The position of an undefined facility (result.facility?.position).
NoPosition == -1

\* calculateTravelTime(facilityPosition) with simulatedHour = hour.
\* time is in minutes, distance is distance.toFixed(1) in tenths of a mile.
calculateTravelTime(facilityPosition, hour) ==
  IF facilityPosition = NoPosition THEN [time |-> 0, distance |-> 0]
  ELSE LET speed == TrafficSpeed(getTrafficForHour(hour))
           time == RoundDiv(facilityPosition * 60, 1000 * speed)
       IN [time |-> Max(1, time),
           distance |-> RoundDiv(facilityPosition, 100)]

\* A coordinate that the position value does not have (undefined).
\* Coordinates that it has are in millionths of a degree.
NoCoordinate == 999999999

\* The values passed as facilityPosition.
UndefinedPosition == [kind |-> "undefined", lat |-> NoCoordinate, lng |-> NoCoordinate]

NullPosition == [kind |-> "null", lat |-> NoCoordinate, lng |-> NoCoordinate]

ArrayPosition(lat, lng) == [kind |-> "array", lat |-> lat, lng |-> lng]

ObjectPosition(lat, lng) == [kind |-> "object", lat |-> lat, lng |-> lng]

\* userLocation
userLocation == <<33777525, -84396128>>

\* R * c of the haversine formula from userLocation, in thousandths of a
\* mile, for the points of the model (computed in doubles as the code does):
\* userLocation itself, a point 170 feet north of it, Grady Memorial
\* Hospital, and the points at latitude 0 and at longitude 0.
HaversineDistance(facLat, facLng) ==
  CASE facLat = 33777525 /\ facLng = -84396128 -> 0
    [] facLat = 33778000 /\ facLng = -84396128 -> 33
    [] facLat = 33751954 /\ facLng = -84381943 -> 1946
    [] facLat = 0 /\ facLng = -84396128 -> 2333945
    [] facLat = 33777525 /\ facLng = 0 -> 4690255

\* A coordinate read in a condition: undefined and 0 are falsy.
TruthyCoordinate(c) == c # NoCoordinate /\ c # 0

\* The guards of calculateTravelTime: !facilityPosition, Array.isArray,
\* facilityPosition.lat && facilityPosition.lng.
HasCoordinates(facilityPosition) ==
  /\ facilityPosition.kind \in {"array", "object"}
  /\ facilityPosition.kind = "object" =>
        TruthyCoordinate(facilityPosition.lat) /\ TruthyCoordinate(facilityPosition.lng)

\* calculateTravelTime(facilityPosition) on a position value, with
\* simulatedHour = hour.
TravelTimeOfPosition(facilityPosition, hour) ==
  IF HasCoordinates(facilityPosition)
  THEN calculateTravelTime(HaversineDistance(facilityPosition.lat, facilityPosition.lng),
                           hour)
  ELSE calculateTravelTime(NoPosition, hour)

\* A call calculateTravelTime(callArgs.position).
CalculateTravelTimeCall ==
  /\ callResult = NoCall
  /\ callResult' = [outcome |-> "returned",
                    value |-> TravelTimeOfPosition(callArgs.position, simulatedHour)]
  /\ UNCHANGED <<appVars, serverVars, callArgs, netVars>>

(***************************************************************************)
(* Frontend: recommendation engine (App.js, handleGetRecommendation).      *)
(***************************************************************************)
\* result.facility when neither grady nor ers[0] exists (undefined).
Undefined ==
  [id |-> 0, name |-> "undefined", type |-> "undefined", status |-> "undefined",
   currentWaitTime |-> 0, position |-> NoPosition]

\* recommendation === null
Null == [decision |-> "null", facility |-> Undefined,
         travelTime |-> [time |-> 0, distance |-> 0], reasoning |-> <<>>]

\* f.name.includes('Grady'), over the names that occur in the model.
NameIncludesGrady(name) == name = "Grady Memorial Hospital"

\* facilities.filter(f => f.type === type && f.status === 'Open')
OpenOfType(facs, type) ==
  SelectSeq(facs, LAMBDA f : f.type = type /\ f.status = "Open")

\* facilities.find(f => f.name.includes('Grady'))
RECURSIVE FindGrady(_)
FindGrady(facs) ==
  IF facs = <<>> THEN Undefined
  ELSE IF NameIncludesGrady(Head(facs).name) THEN Head(facs)
       ELSE FindGrady(Tail(facs))

\* The result object after a branch has filled it in.
Returned(decision, facility, travelTime, reasoning) ==
  [outcome |-> "returned", decision |-> decision, facility |-> facility,
   travelTime |-> travelTime, reasoning |-> reasoning]

\* scored[0].facility on an empty array: TypeError, nothing is stored.
Threw ==
  [outcome |-> "TypeError", decision |-> "", facility |-> Undefined,
   travelTime |-> [time |-> 0, distance |-> 0], reasoning |-> <<>>]

\* One reasoning string: its text with {name} for the facility name and
\* {wait}, {travel}, {distance}, {total} for the numbers interpolated, the
\* name interpolated, and the numbers interpolated, each with the
\* placeholder it fills.
Says(text, name, quotes) == [text |-> text, name |-> name, quotes |-> quotes]

\* A reasoning string without interpolation.
Plain(text) == Says(text, "", {})

\* Severe, every persona but dementia: result.reasoning.
SevereStayReasoning(persona, facility, travelTime) ==
  IF persona = "pregnancy"
  THEN << Plain("Extreme blood pressure and seizure risk requires immediate specialized care"),
          Plain("Ambulance provides critical monitoring and can administer emergency medications"),
          Says("{name} has OB specialists available 24/7", facility.name, {}),
          Plain("Do not drive yourself - risk of seizure while driving is too high") >>
  ELSE IF persona = "asthma"
  THEN << Plain("Red Zone (<50% PFM) indicates severe respiratory distress"),
          Plain("Relief inhaler not working - need immediate medical intervention"),
          Plain("Ambulance can provide nebulizer treatment and oxygen en route"),
          Says("{name} can provide intubation if breathing worsens", facility.name, {}) >>
  ELSE << Plain("Severe burns require immediate trauma care"),
          Plain("Ambulance provides pain management and sterile wound care en route"),
          Says("{name} has specialized burn unit", facility.name, {}),
          Says("Facility is {distance} miles away ({travel} min by ambulance)", "",
               {<<"distance", travelTime.distance>>, <<"travel", travelTime.time>>}) >>

\* Severe, dementia: result.reasoning.
SevereDementiaReasoning(facility) ==
  << Plain("Severe crisis (screaming, hitting, paranoia) requires immediate de-escalation"),
     Plain("Caretaker should accompany to provide familiar presence and medical history"),
     Says("{name} has shortest wait ({wait} min)", facility.name,
          {<<"wait", facility.currentWaitTime>>}),
     Plain("Avoid bright lights and loud noises - request quiet room upon arrival") >>

\* SevereStay with the decision of the Moderate ER branch.
SevereStayAsMove(persona, facs, ers, hour) ==
  LET grady == FindGrady(facs)
      facility == IF grady.id # 0 THEN grady
                  ELSE IF ers # <<>> THEN ers[1] ELSE Undefined
      travelTime == calculateTravelTime(facility.position, hour)
  IN Returned("MOVE to ER", facility, travelTime,
              SevereStayReasoning(persona, facility, travelTime))

\* Severe, every persona but dementia: grady || ers[0], 'STAY - Call 911'.
SevereStay(persona, facs, ers, hour) ==
  LET grady == FindGrady(facs)
      facility == IF grady.id # 0 THEN grady
                  ELSE IF ers # <<>> THEN ers[1] ELSE Undefined
      travelTime == calculateTravelTime(facility.position, hour)
  IN Returned("STAY - Call 911", facility, travelTime,
              SevereStayReasoning(persona, facility, travelTime))

\* SevereDementiaScore with the travel minutes counted once.
SevereDementiaScoreTravelOnce(facility, travel) ==
  (100 - facility.currentWaitTime) + (50 - travel.time)

\* Severe, dementia: score of one open ER.
SevereDementiaScore(facility, travel) ==
  (100 - facility.currentWaitTime) + (50 - travel.time * 2)

\* Severe, dementia: the ERs sorted by descending score.
SevereDementia(ers, hour) ==
  LET scored == SortByKey([i \in 1 .. Len(ers) |->
                   LET travel == calculateTravelTime(ers[i].position, hour)
                   IN [facility |-> ers[i], travel |-> travel,
                       key |-> 0 - SevereDementiaScore(ers[i], travel)]])
  IN IF scored = <<>> THEN Threw
     ELSE Returned("MOVE to ER with Caretaker", scored[1].facility, scored[1].travel,
                   SevereDementiaReasoning(scored[1].facility))

\* Moderate: the weights (waitTime, travelTime) of the persona, in percent.
ModerateWeights(persona) ==
  IF persona = "pregnancy" THEN [waitTime |-> 50, travelTime |-> 30]
  ELSE IF persona = "asthma" THEN [waitTime |-> 40, travelTime |-> 40]
  ELSE IF persona = "dementia" THEN [waitTime |-> 30, travelTime |-> 50]
  ELSE [waitTime |-> 40, travelTime |-> 30]

\* Moderate: the bonus added to the score for the facility's type.
ModerateBonus(persona, type) ==
  IF persona = "pregnancy" THEN (IF type = "ER" THEN 20 ELSE 0)
  ELSE IF persona = "asthma" THEN (IF type = "Urgent Care" THEN 20 ELSE 0)
  ELSE IF persona = "dementia" THEN 20
  ELSE (IF type = "Urgent Care" THEN 30 ELSE 0)

\* ModerateScore without the bonus for the facility's type.
ModerateScoreNoBonus(persona, facility, travel) ==
  LET weights == ModerateWeights(persona)
  IN (100 - facility.currentWaitTime) * (weights.waitTime \div 10)
     + (50 - travel.time) * (weights.travelTime \div 10)

\* Moderate: the score of one candidate, in tenths of a point.
ModerateScore(persona, facility, travel) ==
  LET weights == ModerateWeights(persona)
  IN (100 - facility.currentWaitTime) * (weights.waitTime \div 10)
     + (50 - travel.time) * (weights.travelTime \div 10)
     + 10 * ModerateBonus(persona, facility.type)

\* Moderate: allFacilities
ModerateCandidates(persona, ers, urgentCares) ==
  IF persona = "burn" THEN ers \o urgentCares ELSE ers

\* Moderate: result.reasoning; totalTime is scored[0].totalTime.
ModerateReasoning(persona, facility, travelTime, totalTime) ==
  IF persona = "pregnancy"
  THEN << Plain("High blood pressure and headache need professional evaluation"),
          Says("{name} can run lab tests to check for pre-eclampsia", facility.name, {}),
          Says("Wait time: {wait} min, Travel: {travel} min", "",
               {<<"wait", facility.currentWaitTime>>, <<"travel", travelTime.time>>}),
          Says("Total time to see doctor: ~{total} min", "",
               {<<"total", travelTime.time + facility.currentWaitTime>>}) >>
  ELSE IF persona = "asthma"
  THEN << Plain("Yellow Zone (50-80% PFM) - symptoms worsening, need nebulizer treatment"),
          Says("{name} can provide quick-relief treatment", facility.name, {}),
          Plain(IF facility.type = "Urgent Care" THEN "Lower cost than ER"
                ELSE "Full emergency capabilities"),
          Says("Total time: {total} min ({travel} min travel + {wait} min wait)", "",
               {<<"total", totalTime>>, <<"travel", travelTime.time>>,
                <<"wait", facility.currentWaitTime>>}) >>
  ELSE IF persona = "dementia"
  THEN << Plain("Moderate agitation - increased confusion and restlessness"),
          Plain("Closer facility reduces stress and disorientation"),
          Says("{name} is only {distance} miles away", facility.name,
               {<<"distance", travelTime.distance>>}),
          Plain("Bring comfort items and have caretaker explain each step") >>
  ELSE << Plain("Moderate burns need professional assessment"),
          Says("{name} has shortest total time ({total} min)", facility.name,
               {<<"total", totalTime>>}),
          Plain(IF facility.type = "Urgent Care"
                THEN "Much lower cost than ER ($80-150 vs $300-500)"
                ELSE "ER provides comprehensive care"),
          Says("Travel: {distance} mi, {travel} min", "",
               {<<"distance", travelTime.distance>>, <<"travel", travelTime.time>>}) >>

\* Moderate: the candidates sorted by descending score.
Moderate(persona, ers, urgentCares, hour) ==
  LET allFacilities == ModerateCandidates(persona, ers, urgentCares)
      scored == SortByKey([i \in 1 .. Len(allFacilities) |->
                   LET travel == calculateTravelTime(allFacilities[i].position, hour)
                   IN [facility |-> allFacilities[i], travel |-> travel,
                       totalTime |-> travel.time + allFacilities[i].currentWaitTime,
                       key |-> 0 - ModerateScore(persona, allFacilities[i], travel)]])
  IN IF scored = <<>> THEN Threw
     ELSE Returned("MOVE to " \o scored[1].facility.type,
                   scored[1].facility, scored[1].travel,
                   ModerateReasoning(persona, scored[1].facility, scored[1].travel,
                                     scored[1].totalTime))

\* ByTotalTime ranking by currentWaitTime alone.
ByWaitTime(candidates, hour) ==
  SortByKey([i \in 1 .. Len(candidates) |->
     LET travel == calculateTravelTime(candidates[i].position, hour)
     IN [facility |-> candidates[i], travel |-> travel,
         totalTime |-> travel.time + candidates[i].currentWaitTime,
         key |-> candidates[i].currentWaitTime]])

\* Mild: the given facilities sorted by ascending travel.time + currentWaitTime.
ByTotalTime(candidates, hour) ==
  SortByKey([i \in 1 .. Len(candidates) |->
     LET travel == calculateTravelTime(candidates[i].position, hour)
     IN [facility |-> candidates[i], travel |-> travel,
         totalTime |-> travel.time + candidates[i].currentWaitTime,
         key |-> travel.time + candidates[i].currentWaitTime]])

\* Mild: the decision of the ER branch.
MildERDecision(availableUCs) ==
  IF Len(availableUCs) = 0 THEN "MOVE to ER (Urgent Care closed)" ELSE "MOVE to ER"

\* Mild, Urgent Care branch: result.reasoning.
MildUrgentCareReasoning(persona, facility, travelTime, totalTime) ==
  << Plain(IF persona = "burn" THEN "Minor burns can be treated at Urgent Care"
           ELSE IF persona = "asthma"
           THEN "Green Zone (80-100% PFM) - symptoms controlled, routine check recommended"
           ELSE "Mild distress can be managed with calming environment"),
     Says("{name} has shortest total time ({total} min)", facility.name,
          {<<"total", totalTime>>}),
     Plain("Much lower cost than ER ($80-150 vs $300-500)"),
     Says("Travel: {distance} mi in {travel} min", "",
          {<<"distance", travelTime.distance>>, <<"travel", travelTime.time>>}) >>

\* MildERReasoning with the total time interpolated as the wait.
MildERReasoningTotalAsWait(persona, availableUCs, facility, travelTime) ==
  << Plain(IF persona = "pregnancy" THEN "Any pregnancy symptoms should be evaluated at ER"
           ELSE "Urgent Care centers are currently closed"),
     Says("{name} has shortest wait ({wait} min)", facility.name,
          {<<"wait", travelTime.time + facility.currentWaitTime>>}),
     Says("Travel: {distance} mi, {travel} min", "",
          {<<"distance", travelTime.distance>>, <<"travel", travelTime.time>>}),
     Plain(IF Len(availableUCs) = 0 THEN "Still appropriate for mild symptoms"
           ELSE "Better safe than sorry during pregnancy") >>

\* Mild, ER branch: result.reasoning.
MildERReasoning(persona, availableUCs, facility, travelTime) ==
  << Plain(IF persona = "pregnancy" THEN "Any pregnancy symptoms should be evaluated at ER"
           ELSE "Urgent Care centers are currently closed"),
     Says("{name} has shortest wait ({wait} min)", facility.name,
          {<<"wait", facility.currentWaitTime>>}),
     Says("Travel: {distance} mi, {travel} min", "",
          {<<"distance", travelTime.distance>>, <<"travel", travelTime.time>>}),
     Plain(IF Len(availableUCs) = 0 THEN "Still appropriate for mild symptoms"
           ELSE "Better safe than sorry during pregnancy") >>

\* Mild (the final else of the severity chain).
Mild(persona, ers, urgentCares, hour) ==
  LET availableUCs == SelectSeq(urgentCares, LAMBDA f : f.status = "Open")
  IN IF Len(availableUCs) > 0 /\ persona # "pregnancy"
     THEN LET scored == ByTotalTime(availableUCs, hour)
          IN Returned("MOVE to Urgent Care", scored[1].facility, scored[1].travel,
                      MildUrgentCareReasoning(persona, scored[1].facility,
                                              scored[1].travel, scored[1].totalTime))
     ELSE LET scored == ByTotalTime(ers, hour)
          IN IF scored = <<>> THEN Threw
             ELSE Returned(MildERDecision(availableUCs),
                           scored[1].facility, scored[1].travel,
                           MildERReasoning(persona, availableUCs, scored[1].facility,
                                           scored[1].travel))

\* The body of handleGetRecommendation after the loading check.
Recommend(facs, persona, sev, hour) ==
  LET ers == OpenOfType(facs, "ER")
      urgentCares == OpenOfType(facs, "Urgent Care")
  IN IF sev = "Severe"
     THEN IF persona = "pregnancy" \/ persona = "asthma"
          THEN SevereStay(persona, facs, ers, hour)
          ELSE IF persona = "dementia" THEN SevereDementia(ers, hour)
          ELSE SevereStay(persona, facs, ers, hour)
     ELSE IF sev = "Moderate" THEN Moderate(persona, ers, urgentCares, hour)
     ELSE Mild(persona, ers, urgentCares, hour)

\* handleGetRecommendation: the click on "Get Recommendation".
HandleGetRecommendation ==
  /\ IF Len(facilities) = 0
     THEN /\ outcome' = "alert"
          /\ UNCHANGED <<recommendation, highlightedFacilityId>>
     ELSE LET result == Recommend(facilities, selectedPersona, severity, simulatedHour)
          IN IF result.outcome = "TypeError"
             THEN /\ outcome' = "TypeError"
                  /\ UNCHANGED <<recommendation, highlightedFacilityId>>
             ELSE /\ outcome' = "returned"
                  /\ highlightedFacilityId' = result.facility.id
                  /\ recommendation' = [decision |-> result.decision,
                                        facility |-> result.facility,
                                        travelTime |-> result.travelTime,
                                        reasoning |-> result.reasoning]
  /\ UNCHANGED <<severity, selectedPersona, simulatedHour, facilities, trafficLevel>>
  /\ UNCHANGED <<serverVars, callVars, netVars>>

(***************************************************************************)
(* Backend: the projector and GET /api/facilities as steps (server.js).    *)
(***************************************************************************)
\* null, as the value of specifiedHour / simulatedHour.
NullHour == -1000

\* getAtlantaHour(): global.getAtlantaHour is assigned nowhere in this
\* version of the file, so the hour of the wall clock is returned.
getAtlantaHour == clock

\* specifiedHour !== null ? specifiedHour : getAtlantaHour()
ResolveHour(specifiedHour) ==
  IF specifiedHour # NullHour THEN specifiedHour ELSE getAtlantaHour

\* baseFacilities.map(facility => ...) over the array cat at a resolved hour.
ProjectCatalog(cat, hour) ==
  [i \in 1 .. Len(cat) |-> FacilityView(cat[i], hour)]

\* No array returned yet.
NoProjection == [hour |-> NullHour, data |-> <<>>]

\* Project with the computed wait written back into the catalog record
\* (facility.baseWaitTime = currentWaitTime inside the map callback).
ProjectInPlace(specifiedHour) ==
  /\ handler.pc = "idle"
  /\ LET hour == ResolveHour(specifiedHour)
         data == ProjectCatalog(catalog, hour)
     IN /\ projection' = [hour |-> hour, data |-> data]
        /\ catalog' = [i \in 1 .. Len(catalog) |->
                         [catalog[i] EXCEPT !.baseWaitTime = data[i].currentWaitTime]]
  /\ UNCHANGED <<clock, handler, response, previous>>
  /\ UNCHANGED <<appVars, callVars, netVars>>

\* A call getFacilitiesWithCurrentStatus(specifiedHour): hour is resolved
\* once, the array is built from the catalog, the catalog is only read.
Project(specifiedHour) ==
  /\ handler.pc = "idle"
  /\ LET hour == ResolveHour(specifiedHour)
     IN projection' = [hour |-> hour, data |-> ProjectCatalog(catalog, hour)]
  /\ UNCHANGED <<catalog, clock, handler, response, previous>>
  /\ UNCHANGED <<appVars, callVars, netVars>>

\* The caller keeps the array it was returned while further calls are made.
KeepProjection ==
  /\ projection # NoProjection
  /\ previous' = projection
  /\ UNCHANGED <<catalog, clock, handler, response, projection>>
  /\ UNCHANGED <<appVars, callVars, netVars>>

\* The decimal digits of a query string.
Digits == <<"0", "1", "2", "3", "4", "5", "6", "7", "8", "9">>

\* The value of a digit character.
DigitValue(c) == (CHOOSE i \in 1 .. 10 : Digits[i] = c) - 1

IsDigit(c) == \E i \in 1 .. 10 : Digits[i] = c

\* String(n) for 0 <= n <= 99, as a sequence of characters: the text that
\* the template `?simulatedHour=${simulatedHour}` puts in the query.
DecimalString(n) ==
  IF n < 10 THEN <<Digits[n + 1]>> ELSE <<Digits[(n \div 10) + 1], Digits[(n % 10) + 1]>>

\* The digits at the front of chars, read in base 10 onto acc.
RECURSIVE ParseDigits(_, _)
ParseDigits(chars, acc) ==
  IF chars = <<>> \/ ~IsDigit(Head(chars)) THEN acc
  ELSE ParseDigits(Tail(chars), 10 * acc + DigitValue(Head(chars)))

\* parseInt(string): an optional sign, then the leading decimal digits.
parseInt(string) ==
  LET signed == string # <<>> /\ Head(string) \in {"-", "+"}
      body == IF signed THEN Tail(string) ELSE string
  IN IF body = <<>> \/ ~IsDigit(Head(body)) THEN NaN
     ELSE IF signed /\ Head(string) = "-" THEN 0 - ParseDigits(body, 0)
     ELSE ParseDigits(body, 0)

\* req.query.simulatedHour: absent, or the string given.
AbsentParam == [present |-> FALSE, value |-> <<>>]

StringParam(string) == [present |-> TRUE, value |-> string]

\* req.query.simulatedHour ? parseInt(req.query.simulatedHour) : null
\* (undefined and the empty string are falsy, "0" is truthy).
ParseSimulatedHour(param) ==
  IF param.present /\ param.value # <<>> THEN parseInt(param.value) ELSE NullHour

\* No handler of GET /api/facilities is running.
Idle == [pc |-> "idle", param |-> AbsentParam, simulatedHour |-> NullHour,
         facilities |-> <<>>, startedAt |-> NullHour]

\* Nothing has been sent yet.
NoResponse == [success |-> FALSE, data |-> <<>>, trafficLevel |-> "",
               simulatedHour |-> NullHour]

\* GET /api/facilities, up to and including the call of
\* getFacilitiesWithCurrentStatus(simulatedHour).
GetFacilitiesProject(param) ==
  /\ handler.pc = "idle"
  /\ LET simHour == ParseSimulatedHour(param)
         hour == ResolveHour(simHour)
     IN handler' = [pc |-> "getTrafficLevel", param |-> param,
                    simulatedHour |-> simHour,
                    facilities |-> ProjectCatalog(catalog, hour),
                    startedAt |-> clock]
  /\ UNCHANGED <<catalog, clock, response, projection, previous>>
  /\ UNCHANGED <<appVars, callVars, netVars>>

\* GET /api/facilities, from the call of getTrafficLevel(simulatedHour) to
\* res.json: the hour is resolved again, from the wall clock if null.
GetFacilitiesRespond ==
  /\ handler.pc = "getTrafficLevel"
  /\ response' = [success |-> TRUE, data |-> handler.facilities,
                  trafficLevel |-> getTrafficLevel(ResolveHour(handler.simulatedHour)),
                  simulatedHour |-> handler.simulatedHour]
  /\ handler' = Idle
  /\ UNCHANGED <<catalog, clock, projection, previous>>
  /\ UNCHANGED <<appVars, callVars, netVars>>

\* The wall clock reaches the next hour.  A handler runs to completion
\* within a few milliseconds, so at most one hour boundary falls inside it.
Tick ==
  /\ handler.pc = "idle" \/ handler.startedAt = clock
  /\ clock' = (clock + 1) % 24
  /\ UNCHANGED <<catalog, handler, response, projection, previous>>
  /\ UNCHANGED <<appVars, callVars, netVars>>

\* The module-scope bindings of server.js that hold facility data, by
\* name.  The name facilities is bound only inside the GET /api/facilities
\* handler.
ModuleBindings == [baseFacilities |-> catalog]

\* An absent property of req.body (undefined).
NoAge == -1

NoValue == "undefined"

\* The handler threw: the general error handler answers status 500 with
\* { error: 'Something went wrong!' }, which has none of the fields of a
\* decision.
ServerError(error) ==
  [outcome |-> error, status |-> 500,
   body |-> [success |-> FALSE, recommendation |-> "", reasoning |-> <<>>,
             suggestedFacility |-> [id |-> 0]]]

\* The decision logic of POST /api/decision: recommendation and reasoning.
DecisionLogic(body) ==
  IF (body.age # NoAge /\ body.age > 65) \/ body.healthStatus = "critical"
     \/ body.mobility = "limited"
  THEN [recommendation |-> "STAY",
        reasoning |-> <<"Age, health status, or mobility suggests ambulance dispatch">>]
  ELSE IF body.healthStatus = "moderate"
  THEN [recommendation |-> "HYBRID",
        reasoning |-> <<"Moderate condition suggests hybrid approach">>]
  ELSE [recommendation |-> "MOVE",
        reasoning |-> <<"User can safely travel to nearest facility">>]

\* POST /api/decision with req.body = callArgs: the decision logic, then
\* the response object, whose suggestedFacility reads facilities[0].
PostDecision ==
  /\ callResult = NoCall
  /\ LET decision == DecisionLogic(callArgs)
     IN callResult' =
          IF "facilities" \in DOMAIN ModuleBindings
          THEN [outcome |-> "returned", status |-> 200,
                body |-> [success |-> TRUE,
                          recommendation |-> decision.recommendation,
                          reasoning |-> decision.reasoning,
                          suggestedFacility |-> ModuleBindings["facilities"][1]]]
          ELSE ServerError("ReferenceError")
  /\ UNCHANGED <<appVars, serverVars, callArgs, netVars>>

(***************************************************************************)
(* Frontend: the capacity circles of the map (App.js).                     *)
(***************************************************************************)
\* JavaScript values given as waitTime: a number, a string, undefined.
JsNumber(n) == [type |-> "number", number |-> n, string |-> <<>>]

\* A string is its sequence of characters.
JsString(chars) == [type |-> "string", number |-> 0, string |-> chars]

JsUndefined == [type |-> "undefined", number |-> 0, string |-> <<>>]

\* chars starts with pattern.
StartsWith(chars, pattern) ==
  Len(chars) >= Len(pattern) /\ SubSeq(chars, 1, Len(pattern)) = pattern

\* string.replace(' min', ''): the string without the first ' min' in it.
RECURSIVE RemoveMin(_)
RemoveMin(chars) ==
  IF chars = <<>> THEN <<>>
  ELSE IF StartsWith(chars, <<" ", "m", "i", "n">>) THEN SubSeq(chars, 5, Len(chars))
  ELSE <<Head(chars)>> \o RemoveMin(Tail(chars))

\* getWaitMinutes(waitTime)
getWaitMinutes(waitTime) ==
  IF waitTime.type = "number" THEN waitTime.number
  ELSE IF waitTime.type = "string" THEN parseInt(RemoveMin(waitTime.string))
  ELSE 0

\* getCapacityRadius(waitTime)
getCapacityRadius(waitTime) ==
  LET minutes == getWaitMinutes(waitTime)
  IN Max(100, 400 - (minutes * 5))

\* facility.waitTime: the property of that name, undefined when the view
\* has none.
WaitTimeProperty(facility) ==
  IF "waitTime" \in DOMAIN facility THEN facility["waitTime"] ELSE JsUndefined

\* The render of the map: one capacity circle per facility, of radius
\* getCapacityRadius(facility.waitTime).
RenderCapacityCircles ==
  /\ callResult' =
        [outcome |-> "returned",
         value |-> [i \in 1 .. Len(facilities) |->
                      [id |-> facilities[i].id,
                       radius |-> getCapacityRadius(WaitTimeProperty(facilities[i]))]]]
  /\ UNCHANGED <<appVars, serverVars, callArgs, netVars>>

(***************************************************************************)
(* Frontend: the controls and the fetch of /api/facilities (App.js).       *)
(***************************************************************************)
\* The most fetches of /api/facilities awaited at a time.
MaxInFlight == 2

\* The body that the backend sends for `?simulatedHour=${hour}`.
FacilitiesResponse(hour) ==
  LET specifiedHour == ParseSimulatedHour(StringParam(DecimalString(hour)))
  IN [success |-> TRUE,
      data |-> ProjectCatalog(catalog, ResolveHour(specifiedHour)),
      trafficLevel |-> getTrafficLevel(ResolveHour(specifiedHour))]

\* fetch(fetchUrl) of the effect, for the simulatedHour of the render that
\* ran the effect.
FetchFacilities(hour) ==
  /\ hour \in inFlight \/ Cardinality(inFlight) < MaxInFlight
  /\ inFlight' = inFlight \cup {hour}

\* The .then callback of a fetch issued for hour: whichever hour is
\* selected by now, the data are stored.
ReceiveFacilities(hour) ==
  /\ hour \in inFlight
  /\ inFlight' = inFlight \ {hour}
  /\ LET data == FacilitiesResponse(hour)
     IN IF data.success
        THEN /\ facilities' = data.data
             /\ trafficLevel' = IF data.trafficLevel = "" THEN "moderate"
                                ELSE data.trafficLevel
        ELSE UNCHANGED <<facilities, trafficLevel>>
  /\ UNCHANGED <<severity, selectedPersona, simulatedHour, recommendation,
                 highlightedFacilityId, outcome>>
  /\ UNCHANGED <<serverVars, callVars>>

\* onChange of the Time of Day Simulator: setSimulatedHour(newHour), then
\* the effect of [simulatedHour] runs again and fetches; a fetch already
\* under way is not cancelled.
SelectHour(newHour) ==
  /\ newHour # simulatedHour
  /\ simulatedHour' = newHour
  /\ FetchFacilities(newHour)
  /\ UNCHANGED <<severity, selectedPersona, facilities, trafficLevel, recommendation,
                 highlightedFacilityId, outcome>>
  /\ UNCHANGED <<serverVars, callVars>>

\* The 60-second interval of the effect: a fetch for the simulatedHour of
\* the current render.
RefreshFacilities ==
  /\ FetchFacilities(simulatedHour)
  /\ UNCHANGED <<appVars, serverVars, callVars>>

\* onChange of the profile selector.
SelectPersona(persona) ==
  /\ persona # selectedPersona
  /\ selectedPersona' = persona
  /\ recommendation' = Null
  /\ highlightedFacilityId' = 0
  /\ UNCHANGED <<severity, simulatedHour, facilities, trafficLevel, outcome>>
  /\ UNCHANGED <<serverVars, callVars, netVars>>

\* onClick of a severity button.
SetSeverity(sev) ==
  /\ severity' = sev
  /\ UNCHANGED <<selectedPersona, simulatedHour, facilities, trafficLevel,
                 recommendation, highlightedFacilityId, outcome>>
  /\ UNCHANGED <<serverVars, callVars, netVars>>

(***************************************************************************)
(* Specifications.                                                         *)
(*                                                                         *)
(* The engine is a function of the application state (facilities,          *)
(* selectedPersona, severity, simulatedHour).  Each specification draws    *)
(* that state in Init and applies handleGetRecommendation to it.           *)
(***************************************************************************)
\* currentWaitTime values of the facility views supplied to the engine.
WaitValues == {10, 14}

\* Distances (thousandths of a mile) of the facility views supplied.
PositionValues == {1000, 3000}

\* Name and type of the facility views supplied to the engine.
Kinds ==
  { [name |-> "Grady Memorial Hospital", type |-> "ER"],
    [name |-> "Emory University Hospital Midtown", type |-> "ER"],
    [name |-> "Piedmont Urgent Care", type |-> "Urgent Care"] }

\* The facility views supplied to the engine, without their id: every open
\* view, and one closed view of each kind.
ViewShapes ==
  { [name |-> k.name, type |-> k.type, status |-> "Open",
     currentWaitTime |-> w, position |-> p] :
       k \in Kinds, w \in WaitValues, p \in PositionValues }
  \cup
  { [name |-> k.name, type |-> k.type, status |-> "Closed",
     currentWaitTime |-> 10, position |-> 1000] : k \in Kinds }

\* The facility arrays supplied to the engine: up to MaxFacilities views,
\* ids ascending as in a response of the backend.
FacilityLists ==
  UNION { { [i \in 1 .. n |->
               [id |-> i, name |-> shapes[i].name, type |-> shapes[i].type,
                status |-> shapes[i].status,
                currentWaitTime |-> shapes[i].currentWaitTime,
                position |-> shapes[i].position]] :
            shapes \in [1 .. n -> ViewShapes] } : n \in 0 .. MaxFacilities }

\* The state in which the engine is invoked.
InitWith(facilityArrays, personas, severities) ==
  /\ simulatedHour \in Hours
  /\ facilities \in facilityArrays
  /\ trafficLevel = getTrafficLevel(simulatedHour)
  /\ selectedPersona \in personas
  /\ severity \in severities
  /\ recommendation = Null
  /\ highlightedFacilityId = 0
  /\ outcome = "none"
  /\ inFlight = {}
  /\ catalog = baseFacilities
  /\ clock = simulatedHour
  /\ handler = Idle
  /\ response = NoResponse
  /\ projection = NoProjection
  /\ previous = NoProjection
  /\ callArgs = NoCall
  /\ callResult = NoCall

\* The engine on arbitrary facility views.
EngineInit == InitWith(FacilityLists, Personas, Severities)

EngineNext == HandleGetRecommendation

EngineSpec == EngineInit /\ [][EngineNext]_vars

\* The engine on the reference catalog as the backend projects it for
\* simulatedHour (the array the fetch of /api/facilities stores).
CatalogInit ==
  /\ InitWith({getFacilitiesWithCurrentStatus(h) : h \in Hours}, Personas, Severities)
  /\ facilities = getFacilitiesWithCurrentStatus(simulatedHour)

CatalogNext == HandleGetRecommendation

CatalogSpec == CatalogInit /\ [][CatalogNext]_vars

\* The engine when the persona or the severity is not a recognized one.
UnrecognizedPersona == "stroke"

UnrecognizedSeverity == "Critical"

InvalidInputInit ==
  InitWith(FacilityLists, Personas \cup {UnrecognizedPersona},
           Severities \cup {UnrecognizedSeverity})

InvalidInputNext == HandleGetRecommendation

InvalidInputSpec == InvalidInputInit /\ [][InvalidInputNext]_vars

\* The frontend as useState initializes it in a page loaded at midnight;
\* the backend specifications leave it there.
AppInitial ==
  /\ severity = "Moderate"
  /\ recommendation = Null
  /\ facilities = <<>>
  /\ trafficLevel = "moderate"
  /\ simulatedHour = 0
  /\ selectedPersona = "burn"
  /\ highlightedFacilityId = 0
  /\ outcome = "none"
  /\ inFlight = {}

\* The backend after the module has been loaded.
ServerInitial ==
  /\ handler = Idle
  /\ response = NoResponse
  /\ projection = NoProjection
  /\ previous = NoProjection
  /\ callArgs = NoCall
  /\ callResult = NoCall

\* The values of the simulatedHour query parameter: absent (a direct
\* request) or the hour that the frontend interpolates.
RequestParams == {AbsentParam} \cup {StringParam(DecimalString(h)) : h \in Hours}

\* GET /api/facilities on the reference catalog while the clock advances.
ServerInit ==
  catalog = baseFacilities /\ clock \in Hours /\ ServerInitial /\ AppInitial

ServerNext ==
  \/ \E param \in RequestParams : GetFacilitiesProject(param)
  \/ GetFacilitiesRespond
  \/ Tick

ServerSpec == ServerInit /\ [][ServerNext]_vars

\* Operating windows and base waits of the one-facility catalogs.
Windows == {<<NoHour, NoHour>>, <<8, 20>>, <<0, 24>>, <<7, 19>>}

BaseWaits == {15, 45}

\* The catalogs projected: the reference catalog, and for each category,
\* window and base wait a catalog of one facility.
Catalogs ==
  {baseFacilities} \cup
  { << [id |-> 1, name |-> "Facility", type |-> t, position |-> 1000,
        baseWaitTime |-> b, openHour |-> w[1], closeHour |-> w[2]] >> :
      t \in {"ER", "Urgent Care"}, w \in Windows, b \in BaseWaits }

\* getFacilitiesWithCurrentStatus called on a catalog at explicit hours;
\* the wall clock, which such a call does not read, stands at midnight.
ProjectorInit == catalog \in Catalogs /\ clock = 0 /\ ServerInitial /\ AppInitial

ProjectorNext ==
  \/ \E h \in Hours : Project(h)
  \/ KeepProjection

ProjectorSpec == ProjectorInit /\ [][ProjectorNext]_vars

\* The coordinate pairs of the position values.
Points ==
  { <<33777525, -84396128>>, <<33778000, -84396128>>, <<33751954, -84381943>>,
    <<0, -84396128>>, <<33777525, 0>> }

\* The position values given to calculateTravelTime: undefined, null, each
\* point as an array and as an object, and objects lacking a coordinate.
PositionArguments ==
  {UndefinedPosition, NullPosition}
  \cup {ArrayPosition(pt[1], pt[2]) : pt \in Points}
  \cup {ObjectPosition(pt[1], pt[2]) : pt \in Points}
  \cup {ObjectPosition(33751954, NoCoordinate), ObjectPosition(NoCoordinate, -84381943),
        ObjectPosition(NoCoordinate, NoCoordinate)}

\* The frontend with some hour selected and nothing else done.
AppAtHour ==
  /\ severity = "Moderate"
  /\ recommendation = Null
  /\ facilities = <<>>
  /\ simulatedHour \in Hours
  /\ trafficLevel = getTrafficLevel(simulatedHour)
  /\ selectedPersona = "burn"
  /\ highlightedFacilityId = 0
  /\ outcome = "none"
  /\ inFlight = {}

\* The backend left alone.
ServerAtRest ==
  /\ catalog = baseFacilities
  /\ clock = 0
  /\ handler = Idle
  /\ response = NoResponse
  /\ projection = NoProjection
  /\ previous = NoProjection

\* calculateTravelTime on the position values at every selected hour.
TravelInit ==
  /\ AppAtHour
  /\ ServerAtRest
  /\ callArgs \in {[position |-> p] : p \in PositionArguments}
  /\ callResult = NoCall

TravelNext == CalculateTravelTimeCall

TravelSpec == TravelInit /\ [][TravelNext]_vars

\* The request bodies posted to /api/decision.
Ages == {NoAge, 30, 65, 66, 67}

HealthStatuses == {NoValue, "mild", "moderate", "critical"}

Mobilities == {NoValue, "full", "limited"}

DecisionBodies ==
  [age : Ages, healthStatus : HealthStatuses, mobility : Mobilities]

\* POST /api/decision on every request body.
DecisionInit ==
  /\ AppAtHour
  /\ ServerAtRest
  /\ callArgs \in DecisionBodies
  /\ callResult = NoCall

DecisionNext == PostDecision

DecisionSpec == DecisionInit /\ [][DecisionNext]_vars

\* The values of the simulatedHour query parameter: absent, the hours in
\* decimal, and the strings '', 'abc', '-1', '24' and '99'.
QueryParams ==
  RequestParams \cup
  { StringParam(<<>>), StringParam(<<"a", "b", "c">>), StringParam(<<"-", "1">>),
    StringParam(<<"2", "4">>), StringParam(<<"9", "9">>) }

\* GET /api/facilities with any value of the query parameter.
QueryInit == ServerInit

QueryNext ==
  \/ \E param \in QueryParams : GetFacilitiesProject(param)
  \/ GetFacilitiesRespond
  \/ Tick

QuerySpec == QueryInit /\ [][QueryNext]_vars

\* Hours offered by the Time of Day Simulator.
SelectableHours == {0, 9, 12}

\* A session in the browser: the page is mounted with some hour selected
\* and the first fetch under way, then the user works the controls while
\* the answers arrive.
SessionInit ==
  /\ severity = "Moderate"
  /\ recommendation = Null
  /\ facilities = <<>>
  /\ trafficLevel = "moderate"
  /\ simulatedHour \in SelectableHours
  /\ selectedPersona = "burn"
  /\ highlightedFacilityId = 0
  /\ outcome = "none"
  /\ inFlight = {simulatedHour}
  /\ ServerAtRest
  /\ callArgs = NoCall
  /\ callResult = NoCall

SessionNext ==
  \/ \E newHour \in SelectableHours : SelectHour(newHour)
  \/ \E hour \in SelectableHours : ReceiveFacilities(hour)
  \/ RefreshFacilities
  \/ \E persona \in Personas : SelectPersona(persona)
  \/ \E sev \in Severities : SetSeverity(sev)
  \/ HandleGetRecommendation

SessionSpec == SessionInit /\ [][SessionNext]_vars

\* The map drawn over the facilities fetched for simulatedHour, before and
\* after a recommendation.
MapInit == CatalogInit

MapNext == RenderCapacityCircles \/ HandleGetRecommendation

MapSpec == MapInit /\ [][MapNext]_vars

(***************************************************************************)
(* Vocabulary of the properties.                                           *)
(***************************************************************************)
\* The elements of a sequence.
Range(s) == {s[i] : i \in 1 .. Len(s)}

\* The open ERs and the open Urgent Cares of the current facilities.
OpenERs == {f \in Range(facilities) : f.type = "ER" /\ f.status = "Open"}

OpenUCs == {f \in Range(facilities) : f.type = "Urgent Care" /\ f.status = "Open"}

\* The facilities whose name designates the trauma center.
Gradys == {f \in Range(facilities) : NameIncludesGrady(f.name)}

\* The call of handleGetRecommendation stored a recommendation.
Produced == outcome = "returned"

\* The facility of the stored recommendation.
Chosen == recommendation.facility

\* Travel minutes and total minutes of a facility at the evaluation hour.
TravelMinutes(f) == calculateTravelTime(f.position, simulatedHour).time

TotalMinutes(f) == TravelMinutes(f) + f.currentWaitTime

\* The candidate set of the branch that the persona and severity select.
BranchCandidates ==
  IF severity = "Severe"
  THEN IF selectedPersona = "dementia" THEN OpenERs ELSE Gradys \cup OpenERs
  ELSE IF severity = "Moderate"
  THEN IF selectedPersona = "burn" THEN OpenERs \cup OpenUCs ELSE OpenERs
  ELSE IF selectedPersona # "pregnancy" /\ OpenUCs # {} THEN OpenUCs ELSE OpenERs

C2_SevereAction ==
  (severity = "Severe" /\ outcome # "none" /\ facilities # <<>>) =>
     IF selectedPersona = "dementia"
     THEN Produced => recommendation.decision = "MOVE to ER with Caretaker"
     ELSE Produced /\ recommendation.decision = "STAY - Call 911"

\* Severe was evaluated for dementia over two open ERs, one with the
\* shorter wait and the other with the shorter trip.
C2_Witness ==
  /\ severity = "Severe" /\ Produced /\ selectedPersona = "dementia"
  /\ recommendation.decision = "MOVE to ER with Caretaker"
  /\ \E a, b \in OpenERs : a.currentWaitTime < b.currentWaitTime
                           /\ a.position > b.position

(***************************************************************************)
(* C3.  At Severe severity with action Stay, the chosen facility is the    *)
(* trauma-center ER (Grady) if present, otherwise the open ER with the     *)
(* shortest current wait among the open ERs.                               *)
(* Fails on the code: without Grady it takes ers[0], the first open ER.    *)
(***************************************************************************)
C3_SevereStayFacility ==
  (severity = "Severe" /\ selectedPersona # "dementia" /\ Produced) =>
     IF Gradys # {} THEN Chosen \in Gradys
     ELSE OpenERs # {} =>
            /\ Chosen \in OpenERs
            /\ \A e \in OpenERs : Chosen.currentWaitTime <= e.currentWaitTime

(***************************************************************************)
(* C4.  Whenever the candidate set of the selected branch is empty, the    *)
(* engine fails with NoAvailableFacility: it stores no recommendation      *)
(* whose facility is undefined and fails with no other error.              *)
(* Fails on the code: Severe 'STAY' stores an undefined facility, the      *)
(* other branches throw a TypeError on scored[0].                          *)
(***************************************************************************)
C4_EmptyCandidatesFail ==
  /\ (outcome # "none" /\ facilities # <<>> /\ BranchCandidates = {}) =>
        outcome = "NoAvailableFacility"
  /\ Produced => Chosen.id # 0

C6_AllUrgentCareClosedAt22 ==
  (simulatedHour = 22 /\ selectedPersona = "burn" /\ severity = "Mild"
   /\ outcome # "none") =>
     /\ \A f \in Range(facilities) : f.type = "Urgent Care" => f.status = "Closed"
     /\ Produced
     /\ recommendation.decision = "MOVE to ER (Urgent Care closed)"
     /\ Chosen.type = "ER" /\ Chosen.status = "Open"

(***************************************************************************)
(* C6, amended.  Reference catalog projected at hour 22, burn, Mild: the   *)
(* Urgent Cares with limited hours (ids 4, 5, 7, 8) are Closed, the        *)
(* 24-hour Urgent Care (id 6) is Open, the action is 'MOVE to Urgent Care' *)
(* and the chosen facility is that open Urgent Care.                       *)
(***************************************************************************)
C6_Hour22BurnMild ==
  (simulatedHour = 22 /\ selectedPersona = "burn" /\ severity = "Mild"
   /\ outcome # "none") =>
     /\ \A f \in Range(facilities) :
           f.type = "Urgent Care" => (f.status = "Open" <=> f.id = 6)
     /\ Produced
     /\ recommendation.decision = "MOVE to Urgent Care"
     /\ Chosen.id = 6 /\ Chosen.type = "Urgent Care" /\ Chosen.status = "Open"

\* The burn persona asked for a Mild recommendation at hour 22.
C6_Witness ==
  /\ simulatedHour = 22 /\ selectedPersona = "burn" /\ severity = "Mild"
  /\ facilities = getFacilitiesWithCurrentStatus(22)
  /\ Produced /\ highlightedFacilityId = Chosen.id

(***************************************************************************)
(* C7.  At Mild severity, a persona other than pregnancy with an open      *)
(* Urgent Care gets an open Urgent Care of minimal travel + wait over the  *)
(* open Urgent Cares; pregnancy, or no open Urgent Care, gets an open ER   *)
(* of minimal travel + wait over the open ERs.                             *)
(***************************************************************************)
C7_MildChoice ==
  (severity = "Mild" /\ Produced) =>
     /\ recommendation.travelTime.time = TravelMinutes(Chosen)
     /\ IF selectedPersona # "pregnancy" /\ OpenUCs # {}
        THEN /\ Chosen \in OpenUCs
             /\ \A u \in OpenUCs : TotalMinutes(Chosen) <= TotalMinutes(u)
        ELSE /\ Chosen \in OpenERs
             /\ \A e \in OpenERs : TotalMinutes(Chosen) <= TotalMinutes(e)

\* Mild ranked two open Urgent Cares and did not take the first of them.
C7_Witness ==
  /\ severity = "Mild" /\ Produced /\ selectedPersona = "asthma"
  /\ \E u \in OpenUCs : /\ u.id < Chosen.id
                        /\ u.currentWaitTime < Chosen.currentWaitTime
                        /\ TotalMinutes(u) > TotalMinutes(Chosen)

(***************************************************************************)
(* C8.  At Mild severity the action is 'MOVE to ER (Urgent Care closed)'   *)
(* exactly when the ER was chosen because no Urgent Care was open; when    *)
(* the ER was chosen because the persona is pregnancy (ER only), the       *)
(* action does not carry the '(Urgent Care closed)' label.                 *)
(* Fails on the code: pregnancy with no open Urgent Care gets the label.   *)
(***************************************************************************)
C8_ClosedLabelOnlyForClosure ==
  (severity = "Mild" /\ Produced) =>
     (recommendation.decision = "MOVE to ER (Urgent Care closed)"
        <=> (selectedPersona # "pregnancy" /\ OpenUCs = {}))

(***************************************************************************)
(* C9.  At Moderate severity the candidates are the open ERs, with the     *)
(* open Urgent Cares for burn; the chosen facility has the maximum of      *)
(* (100 - wait) * wWait + (50 - travel) * wTravel + bonus over them, with  *)
(* weights (0.5,0.3) pregnancy, (0.4,0.4) asthma, (0.3,0.5) dementia,      *)
(* (0.4,0.3) burn; the action is 'MOVE to' and the winner's category.      *)
(***************************************************************************)
\* The weights of the claim, in tenths.
C9_Weights ==
  CASE selectedPersona = "pregnancy" -> <<5, 3>>
    [] selectedPersona = "asthma" -> <<4, 4>>
    [] selectedPersona = "dementia" -> <<3, 5>>
    [] selectedPersona = "burn" -> <<4, 3>>

\* The score of the claim, in tenths of a point.
C9_Score(f) ==
  (100 - f.currentWaitTime) * C9_Weights[1] + (50 - TravelMinutes(f)) * C9_Weights[2]
  + 10 * ModerateBonus(selectedPersona, f.type)

C9_ModerateChoice ==
  (severity = "Moderate" /\ Produced) =>
     LET candidates == IF selectedPersona = "burn" THEN OpenERs \cup OpenUCs
                       ELSE OpenERs
     IN /\ Chosen \in candidates
        /\ \A c \in candidates : C9_Score(Chosen) >= C9_Score(c)
        /\ recommendation.decision = "MOVE to " \o Chosen.type
        /\ recommendation.travelTime.time = TravelMinutes(Chosen)

\* Moderate for burn preferred an Urgent Care to an open ER with a shorter
\* wait and a shorter trip.
C9_Witness ==
  /\ severity = "Moderate" /\ Produced /\ selectedPersona = "burn"
  /\ Chosen.type = "Urgent Care"
  /\ recommendation.decision = "MOVE to Urgent Care"
  /\ \E e \in OpenERs : /\ e.currentWaitTime < Chosen.currentWaitTime
                        /\ e.position < Chosen.position

(***************************************************************************)
(* C10.  Among candidates that tie on the ranking key (score at Moderate,  *)
(* travel + wait at Mild) the chosen one has the lower wait, then the      *)
(* lower travel, then the lower id.  (The claim as stated.)                *)
(***************************************************************************)
\* The ranking key of a candidate: smaller is better.
C10_RankKey(f) ==
  IF severity = "Moderate" THEN 0 - C9_Score(f) ELSE TotalMinutes(f)

\* a precedes b in the order (wait, travel, id).
C10_Precedes(a, b) ==
  \/ a.currentWaitTime < b.currentWaitTime
  \/ /\ a.currentWaitTime = b.currentWaitTime
     /\ \/ TravelMinutes(a) < TravelMinutes(b)
        \/ TravelMinutes(a) = TravelMinutes(b) /\ a.id <= b.id

C10_TieBreakWaitTravelId ==
  (severity \in {"Moderate", "Mild"} /\ Produced) =>
     \A c \in BranchCandidates :
        C10_RankKey(c) = C10_RankKey(Chosen) => C10_Precedes(Chosen, c)

(***************************************************************************)
(* C10, amended.  Among candidates that tie on the ranking key the chosen  *)
(* one is the first in the candidate array (the open ERs in the order      *)
(* supplied, then for burn at Moderate the open Urgent Cares in the order  *)
(* supplied); wait, travel and id are not consulted.                       *)
(***************************************************************************)
\* The candidate array of the Moderate and Mild branches, in its order.
C10_CandidateArray ==
  LET ers == OpenOfType(facilities, "ER")
      urgentCares == OpenOfType(facilities, "Urgent Care")
  IN IF severity = "Moderate" THEN ModerateCandidates(selectedPersona, ers, urgentCares)
     ELSE IF selectedPersona # "pregnancy" /\ urgentCares # <<>> THEN urgentCares
     ELSE ers

C10_FirstTiedWins ==
  (severity \in {"Moderate", "Mild"} /\ Produced) =>
     LET cs == C10_CandidateArray
     IN \E i \in 1 .. Len(cs) :
           /\ cs[i] = Chosen
           /\ \A j \in 1 .. Len(cs) :
                 /\ C10_RankKey(cs[j]) >= C10_RankKey(cs[i])
                 /\ j < i => C10_RankKey(cs[j]) > C10_RankKey(cs[i])

\* Two candidates tied and the one chosen has the longer wait.
C10_Witness ==
  /\ severity \in {"Moderate", "Mild"} /\ Produced
  /\ \E c \in BranchCandidates :
        /\ c # Chosen
        /\ C10_RankKey(c) = C10_RankKey(Chosen)
        /\ c.currentWaitTime < Chosen.currentWaitTime

(***************************************************************************)
(* C11.  For dementia at Severe severity the chosen facility is an open ER *)
(* whose score (100 - waitMinutes) + (50 - 2 * travelMinutes) is maximal   *)
(* over all open ERs.                                                      *)
(***************************************************************************)
\* The score of the claim.
C11_Score(f) == (100 - f.currentWaitTime) + (50 - 2 * TravelMinutes(f))

C11_SevereDementiaChoice ==
  (severity = "Severe" /\ selectedPersona = "dementia" /\ Produced) =>
     /\ Chosen \in OpenERs
     /\ \A e \in OpenERs : C11_Score(Chosen) >= C11_Score(e)
     /\ recommendation.travelTime.time = TravelMinutes(Chosen)

\* Severe for dementia passed over the first open ER, whose wait is shorter,
\* for a later one whose trip is shorter by more than half the difference.
C11_Witness ==
  /\ severity = "Severe" /\ selectedPersona = "dementia" /\ Produced
  /\ \E e \in OpenERs : /\ e.id < Chosen.id
                        /\ e.currentWaitTime < Chosen.currentWaitTime
                        /\ C11_Score(e) < C11_Score(Chosen)

(***************************************************************************)
(* C12.  In every recommendation each number that the reasoning strings    *)
(* quote equals the value of the facility chosen (wait = currentWaitTime,  *)
(* travel and distance = the stored travel estimate, total = their sum),   *)
(* and a Mild recommendation to Urgent Care mentions the chosen facility's *)
(* wait minutes and a cost comparison.  (The claim as stated.)             *)
(***************************************************************************)
\* The value that a placeholder of the reasoning stands for.
C12_Quoted(tag) ==
  CASE tag = "wait" -> Chosen.currentWaitTime
    [] tag = "travel" -> recommendation.travelTime.time
    [] tag = "distance" -> recommendation.travelTime.distance
    [] tag = "total" -> recommendation.travelTime.time + Chosen.currentWaitTime

\* The placeholders filled in the stored reasoning.
C12_Tags == UNION { {q[1] : q \in line.quotes} : line \in Range(recommendation.reasoning) }

C12_NumbersOfChosen ==
  /\ recommendation.travelTime = calculateTravelTime(Chosen.position, simulatedHour)
  /\ \A line \in Range(recommendation.reasoning) :
        /\ \A q \in line.quotes : q[2] = C12_Quoted(q[1])
        /\ line.name # "" => line.name = Chosen.name

C12_CostComparison ==
  \E line \in Range(recommendation.reasoning) :
     line.text = "Much lower cost than ER ($80-150 vs $300-500)"

C12_ReasoningQuotesWait ==
  Produced =>
     /\ C12_NumbersOfChosen
     /\ (severity = "Mild" /\ recommendation.decision = "MOVE to Urgent Care") =>
           "wait" \in C12_Tags /\ C12_CostComparison

(***************************************************************************)
(* C12, amended.  Each number and name quoted equals the value of the      *)
(* facility chosen, and a Mild recommendation to Urgent Care mentions the  *)
(* chosen facility's total time (travel + wait), its travel distance and   *)
(* minutes and a cost comparison; it does not quote the wait minutes.      *)
(***************************************************************************)
C12_ReasoningQuotesTotal ==
  Produced =>
     /\ C12_NumbersOfChosen
     /\ recommendation.reasoning # <<>>
     /\ (severity = "Mild" /\ recommendation.decision = "MOVE to Urgent Care") =>
           /\ C12_Tags = {"total", "distance", "travel"}
           /\ C12_CostComparison

\* Mild sent asthma to the second of two open Urgent Cares, whose wait,
\* travel minutes and distance all differ from those of the first.
C12_Witness ==
  /\ severity = "Mild" /\ Produced /\ selectedPersona = "asthma"
  /\ recommendation.decision = "MOVE to Urgent Care"
  /\ Len(recommendation.reasoning) = 4
  /\ \E u \in OpenUCs : /\ u.id < Chosen.id
                        /\ u.currentWaitTime # Chosen.currentWaitTime
                        /\ TravelMinutes(u) # TravelMinutes(Chosen)
                        /\ TotalMinutes(u) # TotalMinutes(Chosen)

(***************************************************************************)
(* C13.  For every hour 0..23 the traffic level is severe for 7-9 and      *)
(* 16-18, heavy for 6, 10-11 and 14-15, moderate for 12-13 and low         *)
(* otherwise; getTrafficLevel(hour) of the backend (the trafficLevel that  *)
(* the fetch for simulatedHour stored) and getTrafficForHour(hour) of the  *)
(* frontend (the level behind the travel estimate) both return it.         *)
(***************************************************************************)
\* The table of the claim.
C13_Table(hour) ==
  IF hour \in (7 .. 9) \cup (16 .. 18) THEN "severe"
  ELSE IF hour \in {6, 10, 11, 14, 15} THEN "heavy"
  ELSE IF hour \in {12, 13} THEN "moderate"
  ELSE "low"

\* Miles per hour at a level, as the travel estimate uses them.
C13_Speed(level) ==
  CASE level = "low" -> 30 [] level = "moderate" -> 20
    [] level = "heavy" -> 15 [] level = "severe" -> 10

C13_TrafficTable ==
  /\ trafficLevel = C13_Table(simulatedHour)
  /\ getTrafficForHour(simulatedHour) = C13_Table(simulatedHour)
  /\ (Produced /\ Chosen.id # 0) =>
        recommendation.travelTime.time =
           Max(1, RoundDiv(Chosen.position * 60,
                           1000 * C13_Speed(C13_Table(simulatedHour))))

\* A travel estimate was made at hour 6, where the level is heavy between
\* a low hour and a severe hour.
C13_Witness ==
  /\ simulatedHour = 6 /\ trafficLevel = "heavy" /\ Produced /\ Chosen.id # 0
  /\ recommendation.travelTime.time = RoundDiv(Chosen.position * 60, 1000 * 15)
  /\ recommendation.travelTime.time # RoundDiv(Chosen.position * 60, 1000 * 30)
  /\ recommendation.travelTime.time # RoundDiv(Chosen.position * 60, 1000 * 10)

(***************************************************************************)
(* C14.  For every facility category and every hour 0..23 the wait         *)
(* multiplier is non-negative and equals the table: ER 1.8 for 18-22, 1.5  *)
(* for 14-17, 1.0 for 10-13, 1.2 for 6-9, 0.7 otherwise; Urgent Care 1.6   *)
(* for 9-11, 1.3 for 12-13, 1.8 for 14-17, 1.4 for 18-19, 0 for 20-23 and  *)
(* 0-7, 1.0 for hour 8.  Every projected wait is within half a minute of   *)
(* the base wait times the table's multiplier.                             *)
(***************************************************************************)
\* The table of the claim, in tenths.
C14_Table(type, hour) ==
  IF type = "ER"
  THEN CASE hour \in 18 .. 22 -> 18 [] hour \in 14 .. 17 -> 15
         [] hour \in 10 .. 13 -> 10 [] hour \in 6 .. 9 -> 12 [] OTHER -> 7
  ELSE CASE hour \in 9 .. 11 -> 16 [] hour \in 12 .. 13 -> 13
         [] hour \in 14 .. 17 -> 18 [] hour \in 18 .. 19 -> 14
         [] hour \in (20 .. 23) \cup (0 .. 7) -> 0 [] OTHER -> 10

C14_MultiplierTable ==
  projection # NoProjection =>
     \A i \in 1 .. Len(catalog) :
        LET table == C14_Table(catalog[i].type, projection.hour)
            product == catalog[i].baseWaitTime * table
            wait == projection.data[i].currentWaitTime
        IN /\ getTimeMultiplier(catalog[i].type, projection.hour) = table
           /\ table >= 0
           /\ 10 * wait - product <= 5 /\ product - 10 * wait <= 5

\* The reference catalog was projected at hour 8, the one hour at which an
\* Urgent Care has the multiplier 1.0, and at hour 23 before that.
C14_Witness ==
  /\ catalog = baseFacilities
  /\ projection.hour = 8 /\ previous.hour = 23
  /\ \A i \in 4 .. 8 : projection.data[i].currentWaitTime = catalog[i].baseWaitTime
  /\ \A i \in 4 .. 8 : previous.data[i].currentWaitTime = 0

(***************************************************************************)
(* C15.  For every catalog facility and every hour 0..23 the projected     *)
(* currentWaitTime is baseWaitTime times the table multiplier, rounded to  *)
(* the nearest integer with halves rounded up: base 45 with multiplier 0.7 *)
(* gives 32.                                                               *)
(* Fails on the code: the product is formed in doubles, 45 * 0.7 is        *)
(* 31.499999999999996 and Math.round gives 31.                             *)
(***************************************************************************)
C15_HalfRoundsUp ==
  projection # NoProjection =>
     \A i \in 1 .. Len(catalog) :
        LET product == catalog[i].baseWaitTime * C14_Table(catalog[i].type, projection.hour)
        IN projection.data[i].currentWaitTime = (product + 5) \div 10

(***************************************************************************)
(* C16.  For every hour 0..23 an ER is Open; an Urgent Care is Open iff    *)
(* openHour <= hour < closeHour, except that openHour 0 with closeHour 24  *)
(* is always Open and a facility without explicit hours has the window     *)
(* 8..20; the status does not depend on the wait multiplier being zero.    *)
(* A facility with hours [8,20) is Closed at 7 and 20, Open at 8 and 19.   *)
(***************************************************************************)
\* The Urgent Care f is inside its operating window at hour h.
C16_InWindow(f, h) ==
  IF f.openHour # NoHour /\ f.closeHour # NoHour
  THEN \/ f.openHour = 0 /\ f.closeHour = 24
       \/ f.openHour <= h /\ h < f.closeHour
  ELSE 8 <= h /\ h < 20

C16_OpenStatus ==
  projection # NoProjection =>
     \A i \in 1 .. Len(catalog) :
        LET f == catalog[i]
            view == projection.data[i]
            h == projection.hour
        IN /\ view.status \in {"Open", "Closed"}
           /\ f.type = "ER" => view.status = "Open"
           /\ f.type = "Urgent Care" => (view.status = "Open" <=> C16_InWindow(f, h))
           /\ (f.type = "Urgent Care" /\ f.openHour = 8 /\ f.closeHour = 20) =>
                 /\ h \in {7, 20} => view.status = "Closed"
                 /\ h \in {8, 19} => view.status = "Open"

\* The reference catalog at hour 7: the Urgent Care with hours [7,19) is
\* Open with a zero wait, those with hours [8,20) are Closed; and at hour
\* 20 before that: only the 24-hour Urgent Care is Open, with a zero wait.
C16_Witness ==
  /\ catalog = baseFacilities
  /\ projection.hour = 7 /\ previous.hour = 20
  /\ projection.data[7].status = "Open" /\ projection.data[7].currentWaitTime = 0
  /\ projection.data[4].status = "Closed"
  /\ previous.data[6].status = "Open" /\ previous.data[6].currentWaitTime = 0
  /\ previous.data[8].status = "Closed"

(***************************************************************************)
(* C17.  For every projected facility that is Open the capacity tier is    *)
(* High when currentWaitTime < 20, Medium when 20 <= currentWaitTime < 40  *)
(* and Low otherwise; a Closed facility is given no tier derived from its  *)
(* wait.                                                                   *)
(* Fails on the code: the tier is computed for every facility, so a Closed *)
(* Urgent Care with wait 0 has capacity 'High'.                            *)
(***************************************************************************)
C17_TierOnlyWhenOpen ==
  projection # NoProjection =>
     \A i \in 1 .. Len(projection.data) :
        LET view == projection.data[i]
        IN IF view.status = "Open"
           THEN view.capacity = (IF view.currentWaitTime < 20 THEN "High"
                                 ELSE IF view.currentWaitTime < 40 THEN "Medium"
                                 ELSE "Low")
           ELSE view.capacity \notin {"High", "Medium", "Low"}

(***************************************************************************)
(* C18.  Projecting the same catalog at the same hour twice, with any      *)
(* number of projections at other hours in between, yields the same        *)
(* sequence of facility views (order, ids, wait, status, capacity), and no *)
(* projection changes the catalog records.                                 *)
(***************************************************************************)
C18_ProjectionRepeatable ==
  /\ [](previous.hour = projection.hour => previous.data = projection.data)
  /\ [][catalog' = catalog]_vars

\* The array of the reference catalog at hour 18 was kept and, after
\* further calls, hour 18 is the hour of the latest array again.
C18_Witness ==
  /\ catalog = baseFacilities
  /\ previous # NoProjection /\ previous.hour = 18 /\ projection.hour = 18
  /\ Len(projection.data) = Len(catalog)
  /\ \A i \in 1 .. Len(catalog) : projection.data[i].id = catalog[i].id

(***************************************************************************)
(* C19.  Within one GET /api/facilities request without simulatedHour,     *)
(* every facility's wait multiplier and open status and the trafficLevel   *)
(* returned derive from one and the same hour, even when the wall clock    *)
(* advances while the request is processed.                                *)
(* Fails on the code: getFacilitiesWithCurrentStatus(null) and             *)
(* getTrafficLevel(null) each read the clock, and the hour may change      *)
(* between the two reads.                                                  *)
(***************************************************************************)
C19_OneHourPerRequest ==
  (response.success /\ response.simulatedHour = NullHour) =>
     \E h \in Hours : /\ response.data = ProjectCatalog(catalog, h)
                      /\ response.trafficLevel = getTrafficLevel(h)

(***************************************************************************)
(* C20.  For every h in 0..23, 0 included, a request with simulatedHour =  *)
(* h is answered with the facility views and the trafficLevel of hour h,   *)
(* whatever the hour of the wall clock; a request without the parameter is *)
(* answered with those of the wall-clock hour; and no request changes what *)
(* a later one is answered (the catalog is left as it was).                *)
(* Fails on the code for the request without the parameter, through the    *)
(* two clock reads of C19: the views can be of one hour and the            *)
(* trafficLevel of the next.                                               *)
(***************************************************************************)
\* The response that the claim expects for the resolved hour h.
C20_Expected(simHour, h) ==
  [success |-> TRUE, data |-> ProjectCatalog(baseFacilities, h),
   trafficLevel |-> C13_Table(h), simulatedHour |-> simHour]

\* The step that sends the response is as the claim says.
C20_Respond ==
  (handler.pc = "getTrafficLevel" /\ handler'.pc = "idle") =>
     /\ catalog' = baseFacilities
     /\ \A h \in Hours :
           handler.param = StringParam(DecimalString(h)) =>
              response' = C20_Expected(h, h)
     /\ handler.param = AbsentParam => response' = C20_Expected(NullHour, clock)

C20_SimulatedHourOverride == [][C20_Respond]_vars

(***************************************************************************)
(* C21.  For every facility position with valid coordinates and every      *)
(* traffic level, calculateTravelTime returns time = max(1, round(distance *)
(* / speed * 60)) with speed 30 for low, 20 for moderate, 15 for heavy and *)
(* 10 for severe traffic; the time is at least 1, and a facility exactly   *)
(* at the origin gets distance 0 and time 1.                               *)
(* Fails on the code through the guard of C22: an object position with a   *)
(* coordinate equal to 0 is answered with time 0.                          *)
(***************************************************************************)
\* The position value has two numeric coordinates.
C21_ValidCoordinates(p) ==
  p.kind \in {"array", "object"} /\ p.lat # NoCoordinate /\ p.lng # NoCoordinate

C21_TravelTimeFormula ==
  (callResult.outcome = "returned" /\ C21_ValidCoordinates(callArgs.position)) =>
     LET miles == HaversineDistance(callArgs.position.lat, callArgs.position.lng)
         speed == C13_Speed(C13_Table(simulatedHour))
         minutes == (2 * miles * 60 + 1000 * speed) \div (2 * 1000 * speed)
     IN /\ callResult.value.time = (IF minutes < 1 THEN 1 ELSE minutes)
        /\ callResult.value.time >= 1
        /\ <<callArgs.position.lat, callArgs.position.lng>> = userLocation =>
              callResult.value.distance = 0 /\ callResult.value.time = 1

(***************************************************************************)
(* C22.  When the facility position is missing or malformed (undefined,    *)
(* null, or an object without both lat and lng), calculateTravelTime       *)
(* returns the sentinel {time: 0, distance: '0.0'} and does not throw; it  *)
(* returns the sentinel only then, never for valid numeric coordinates.    *)
(* Fails on the code: facilityPosition.lat && facilityPosition.lng is      *)
(* falsy for a coordinate equal to 0, and the sentinel is returned.        *)
(***************************************************************************)
C22_SentinelOnlyForMalformed ==
  callResult.outcome # "none" =>
     /\ callResult.outcome = "returned"
     /\ callResult.value = [time |-> 0, distance |-> 0]
           <=> ~C21_ValidCoordinates(callArgs.position)

(***************************************************************************)
(* C23.  Every POST /api/decision request gets a successful response whose *)
(* recommendation is STAY when age > 65 or healthStatus = 'critical' or    *)
(* mobility = 'limited', otherwise HYBRID when healthStatus = 'moderate',  *)
(* otherwise MOVE, with exactly one reasoning string and a                 *)
(* suggestedFacility that is a facility of the catalog.                    *)
(* Fails on the code: the response object reads facilities[0], and no      *)
(* binding named facilities is in scope of the handler.                    *)
(***************************************************************************)
C23_DecisionResponse ==
  callResult.outcome # "none" =>
     /\ callResult.outcome = "returned" /\ callResult.status = 200
     /\ callResult.body.success
     /\ callResult.body.recommendation =
           (IF callArgs.age \in 66 .. 200 \/ callArgs.healthStatus = "critical"
               \/ callArgs.mobility = "limited" THEN "STAY"
            ELSE IF callArgs.healthStatus = "moderate" THEN "HYBRID" ELSE "MOVE")
     /\ Len(callResult.body.reasoning) = 1
     /\ callResult.body.suggestedFacility.id \in {f.id : f \in Range(catalog)}

(***************************************************************************)
(* C24.  Whenever a reasoning string asserts a superlative about the       *)
(* chosen facility, it is true over the candidates of the branch: 'has     *)
(* shortest total time' (Moderate burn, Mild Urgent Care) implies minimal  *)
(* travel + wait among the candidates, 'has shortest wait' (Severe         *)
(* dementia, Mild ER) implies minimal currentWaitTime among the open ERs.  *)
(* Fails on the code: Severe dementia and Moderate burn rank by a score,   *)
(* Mild ER ranks by travel + wait, and the strings are fixed.              *)
(***************************************************************************)
C24_SuperlativesTrue ==
  Produced =>
     \A line \in Range(recommendation.reasoning) :
        /\ line.text = "{name} has shortest total time ({total} min)" =>
              \A c \in BranchCandidates : TotalMinutes(Chosen) <= TotalMinutes(c)
        /\ line.text = "{name} has shortest wait ({wait} min)" =>
              \A e \in OpenERs : Chosen.currentWaitTime <= e.currentWaitTime

(***************************************************************************)
(* C25.  For every facility drawn on the map the radius of the capacity    *)
(* circle is max(100, 400 - 5 * w), w being the facility's current wait in *)
(* minutes; of two facilities drawn, the one with the shorter current wait *)
(* never has the smaller circle.                                           *)
(* Fails on the code: the circle is given facility.waitTime, a property    *)
(* the facility views do not have, so every radius is 400.                 *)
(***************************************************************************)
C25_RadiusFollowsWait ==
  callResult.outcome = "returned" =>
     /\ Len(callResult.value) = Len(facilities)
     /\ \A i \in 1 .. Len(facilities) :
           LET w == facilities[i].currentWaitTime
           IN callResult.value[i].radius = (IF 400 - 5 * w < 100 THEN 100 ELSE 400 - 5 * w)
     /\ \A i, j \in 1 .. Len(facilities) :
           facilities[i].currentWaitTime < facilities[j].currentWaitTime =>
              callResult.value[i].radius >= callResult.value[j].radius

(***************************************************************************)
(* C26.  For every hour and every projected facility, waitTimeDisplay is   *)
(* 'Closed' if and only if the status is 'Closed'; an Open facility always *)
(* displays its wait in minutes.                                           *)
(* Fails on the code: an Open facility whose computed wait is 0 displays   *)
(* 'Closed'.                                                               *)
(***************************************************************************)
C26_ClosedDisplayIffClosed ==
  projection # NoProjection =>
     \A i \in 1 .. Len(projection.data) :
        LET view == projection.data[i]
        IN /\ (view.waitTimeDisplay = "Closed") <=> (view.status = "Closed")
           /\ view.status = "Open" =>
                 view.waitTimeDisplay = ToString(view.currentWaitTime) \o " min"

(***************************************************************************)
(* C27.  For every value of the simulatedHour query parameter, the hour    *)
(* with which GET /api/facilities projects the facilities and computes     *)
(* trafficLevel is an integer in 0..23.                                    *)
(* Fails on the code: the result of parseInt is used as the hour without   *)
(* any check, be it NaN, negative or greater than 23.                      *)
(***************************************************************************)
C27_HourInRange ==
  handler.pc = "getTrafficLevel" =>
     /\ ResolveHour(handler.simulatedHour) \in 0 .. 23
     /\ \E h \in 0 .. 23 : handler.facilities = ProjectCatalog(catalog, h)

(***************************************************************************)
(* C28.  Once every fetch of /api/facilities that was issued has been      *)
(* answered, in whatever order, the stored facilities and trafficLevel are *)
(* those of the simulatedHour now selected.                                *)
(* Fails on the code: no fetch is cancelled and no answer is checked       *)
(* against the selected hour, so the answer that arrives last is kept.     *)
(***************************************************************************)
C28_LatestHourWins ==
  inFlight = {} =>
     /\ facilities = FacilitiesResponse(simulatedHour).data
     /\ trafficLevel = FacilitiesResponse(simulatedHour).trafficLevel

(***************************************************************************)
(* C29.  Every recommendation is computed from one snapshot: the facility  *)
(* views that handleGetRecommendation ranks were projected for the         *)
(* simulatedHour from which calculateTravelTime takes the traffic level.   *)
(* Fails on the code: between the change of the hour and the arrival of    *)
(* the answer the stored views are those of the hour selected before.      *)
(***************************************************************************)
C29_RanksViewsOfSelectedHour ==
  (HandleGetRecommendation /\ outcome' = "returned") =>
     facilities = FacilitiesResponse(simulatedHour).data

C29_OneSnapshot == [][C29_RanksViewsOfSelectedHour]_vars

(***************************************************************************)
(* C30.  A recommendation on display is the one computed for the persona,  *)
(* severity and simulated hour now selected, and highlightedFacilityId is  *)
(* the id of its facility.                                                 *)
(* Fails on the code: only the profile selector clears the recommendation; *)
(* the severity buttons and the hour selector leave it on display.         *)
(***************************************************************************)
C30_RecommendationOfCurrentInputs ==
  recommendation # Null =>
     /\ highlightedFacilityId = recommendation.facility.id
     /\ LET result == Recommend(facilities, selectedPersona, severity, simulatedHour)
        IN /\ result.outcome = "returned"
           /\ recommendation = [decision |-> result.decision,
                                facility |-> result.facility,
                                travelTime |-> result.travelTime,
                                reasoning |-> result.reasoning]

====
